---- MODULE Spec2Model ----
(***************************************************************************)
(* Task-Manager-Backend: the request handlers of the task, user and auth   *)
(* controllers over the User and Task collections.  One action per route:  *)
(* the route's middleware chain (protect, adminOnly) followed by its       *)
(* handler, run to completion against the store.                           *)
(***************************************************************************)
EXTENDS Integers, Sequences, FiniteSets, TLC

\* Longest checklist a request body carries.
MaxLen == 3

\* Identifier universes of the two collections, and a string that is no ObjectId.
UserIds == {"u1", "u2"}
TaskIds == {"t1", "t2"}
InvalidId == "invalidId"

Roles == {"user", "admin"}
Statuses == {"Pending", "In Progress", "Completed"}

\* TodoSchema: only the completed flag decides anything.
TodoItems == [completed : BOOLEAN]
CheckLists == UNION {[1..n -> TodoItems] : n \in 0..MaxLen}

VARIABLES
    users,      \* User collection: id -> [role, email]
    tasks,      \* Task collection: id -> task document
    last,       \* the request handled last, with its response
    calls,      \* requests in flight: process -> the handler's locals and position
    versionKey  \* __v of the task documents: id -> number

\* What a handler that runs to completion leaves alone.
conc == <<calls, versionKey>>

vars == <<users, tasks, last, calls, versionKey>>

----------------------------------------------------------------------------
\* Request bodies.  has names the fields the body carries.

NoBody ==
    [has |-> {}, status |-> "", todoCheckList |-> <<>>, assignedTo |-> {},
     progress |-> 0, title |-> ""]

StatusBody(s) == [NoBody EXCEPT !.has = {"status"}, !.status = s]
CheckListBody(c) == [NoBody EXCEPT !.has = {"todoCheckList"}, !.todoCheckList = c]
AssignedBody(a) == [NoBody EXCEPT !.has = {"assignedTo"}, !.assignedTo = a]
ProgressBody(p) == [NoBody EXCEPT !.has = {"progress"}, !.progress = p]

\* Response of a handler together with the request it answers.
\* found: the ids of the documents a query of the handler matched; role: the
\* stored role the handler read; error: the error field of a 500, naming the
\* operation that threw.
Response(op, actor, id, body, code, message, found, role) ==
    [op |-> op, actor |-> actor, id |-> id, body |-> body, code |-> code,
     message |-> message, found |-> found, role |-> role, error |-> ""]

\* A catch that answers without res.status(500): the status stays 200.
ServerError_noStatus(response, error) ==
    [response EXCEPT !.code = 200, !.message = "Server error", !.error = error]

\* res.status(500).json({ message: "Server error", error: error.message })
ServerError(response, error) ==
    [response EXCEPT !.code = 500, !.message = "Server error", !.error = error]

NoActor == [_id |-> "", role |-> "undefined"]

----------------------------------------------------------------------------
\* isValid that accepts every string.
isValid_anyString(id) == TRUE

\* mongoose.Types.ObjectId.isValid(id)
isValid(id) == id # InvalidId

\* Model.findById(id) casts id to an ObjectId and throws a CastError for a
\* string that is none.
CastError(id) == id = InvalidId

\* adminOnly that only asks for an authenticated user.
adminOnly_anyUser(user) == user.role \in {"admin", "user"}

\* middleware adminOnly
adminOnly(user) == user.role = "admin"

\* Math.round(num / den * 100) for num >= 0, den > 0: halves round up.  An
\* exact half needs den to be a multiple of 8, beyond the lists explored here;
\* there the double product may fall just under the half (29 / 200 * 100).
MathRound(num, den) == (200 * num + den) \div (2 * den)

\* todoCheckList.filter((item) => item.completed).length
completedCount(todoCheckList) ==
    Cardinality({i \in DOMAIN todoCheckList : todoCheckList[i].completed})

\* progressOf with Math.floor in place of Math.round.
progressOf_floor(todoCheckList) ==
    LET completed == completedCount(todoCheckList)
        total == Len(todoCheckList)
    IN  IF total > 0 THEN (100 * completed) \div total ELSE 0

\* updateTaskCheckList: task.progress = total > 0 ? Math.round(...) : 0
progressOf(todoCheckList) ==
    LET completed == completedCount(todoCheckList)
        total == Len(todoCheckList)
    IN  IF total > 0 THEN MathRound(completed, total) ELSE 0

\* statusOf with the second comparison written >= 0: never Pending.
statusOf_noPending(progress) ==
    IF progress = 100 THEN "Completed"
    ELSE IF progress >= 0 THEN "In Progress"
    ELSE "Pending"

\* updateTaskCheckList: task.status from task.progress
statusOf(progress) ==
    IF progress = 100 THEN "Completed"
    ELSE IF progress > 0 THEN "In Progress"
    ELSE "Pending"

\* TaskSchema defaults applied by Task.create.  title stands for the fields a
\* task only carries (title, description, priority, dueDate, attachments);
\* that the schema requires a title and a dueDate is not modelled.
NewTask(assignedTo, createdBy, todoCheckList) ==
    [status |-> "Pending", progress |-> 0, todoCheckList |-> todoCheckList,
     assignedTo |-> assignedTo, createdBy |-> createdBy, title |-> ""]

\* Object.assign(task, req.body)
ObjectAssign(task, body) ==
    [task EXCEPT
        !.status = IF "status" \in body.has THEN body.status ELSE @,
        !.todoCheckList =
            IF "todoCheckList" \in body.has THEN body.todoCheckList ELSE @,
        !.assignedTo = IF "assignedTo" \in body.has THEN body.assignedTo ELSE @,
        !.progress = IF "progress" \in body.has THEN body.progress ELSE @,
        !.title = IF "title" \in body.has THEN body.title ELSE @]

----------------------------------------------------------------------------
\* updateTaskStatus: task.assignedTo.some((item) => item.toString() === req.user._id.toString())
\* updateTaskCheckList: task.assignedTo.includes(req.user._id)
isAssigned(task, user) == user._id \in task.assignedTo

\* mayUpdate that lets every non-admin through, as getTaskById does.
mayUpdate_anyone(task, user) == isAssigned(task, user) \/ user.role # "admin"

\* updateTaskStatus / updateTaskCheckList: the 403 guard
mayUpdate(task, user) == isAssigned(task, user) \/ user.role = "admin"

\* applyStatusUpdate that also resets progress when the status goes to Pending.
applyStatusUpdate_resetProgress(task, body) ==
    LET status == IF "status" \in body.has THEN body.status ELSE task.status
    IN  IF status = "Completed"
        THEN [task EXCEPT
                !.status = status,
                !.todoCheckList =
                    [i \in DOMAIN @ |-> [@[i] EXCEPT !.completed = TRUE]],
                !.progress = 100]
        ELSE [task EXCEPT !.status = status,
                          !.progress = IF status = "Pending" THEN 0 ELSE @]

\* applyStatusUpdate that first copies the request body onto the task, as
\* updateTask does.
applyStatusUpdate_assignBody(task, body) ==
    LET assigned == ObjectAssign(task, body)
    IN  IF assigned.status = "Completed"
        THEN [assigned EXCEPT
                !.todoCheckList =
                    [i \in DOMAIN @ |-> [@[i] EXCEPT !.completed = TRUE]],
                !.progress = 100]
        ELSE assigned

\* updateTaskStatus: task.status = req.body.status || task.status, and the
\* Completed branch that completes every item and sets progress to 100.
applyStatusUpdate(task, body) ==
    LET status == IF "status" \in body.has THEN body.status ELSE task.status
    IN  IF status = "Completed"
        THEN [task EXCEPT
                !.status = status,
                !.todoCheckList =
                    [i \in DOMAIN @ |-> [@[i] EXCEPT !.completed = TRUE]],
                !.progress = 100]
        ELSE [task EXCEPT !.status = status]

\* canFilter for a handler that reads req.body.todoCheckList || []: a body
\* without a list counts as one with the empty list.
canFilter_emptyDefault(body) == TRUE

\* updateTaskCheckList: todoCheckList.filter(...) can be called, that is, the
\* body carries a list.  has names todoCheckList for a list only; an absent
\* field and a value that is no array (a string, a number, an object, null)
\* make the call throw a TypeError alike.
canFilter(body) == "todoCheckList" \in body.has

\* updateTaskCheckList: replace the list, derive progress, derive status.
applyChecklistUpdate(task, todoCheckList) ==
    LET progress == progressOf(todoCheckList)
    IN  [task EXCEPT
            !.todoCheckList = todoCheckList,
            !.progress = progress,
            !.status = statusOf(progress)]

\* Task.find(filter) of getAllTasks: the ids of the documents returned.
visibleTasks(user, status) ==
    {t \in DOMAIN tasks :
        /\ (status # "" => tasks[t].status = status)
        /\ (user.role # "admin" => user._id \in tasks[t].assignedTo)}

\* Task.deleteMany({ createdBy: id })
deleteManyCreatedBy(id) ==
    [t \in {x \in DOMAIN tasks : tasks[x].createdBy # id} |-> tasks[t]]

\* pullAssignedTo written with updateOne: only one matching document changes.
pullAssignedTo_updateOne(id) ==
    LET matched == {t \in DOMAIN tasks : id \in tasks[t].assignedTo}
        first == IF matched = {} THEN {} ELSE {CHOOSE t \in matched : TRUE}
    IN  [t \in DOMAIN tasks |->
            IF t \in first THEN [tasks[t] EXCEPT !.assignedTo = @ \ {id}]
            ELSE tasks[t]]

\* Task.updateMany({ assignedTo: id }, { $pull: { assignedTo: id } })
pullAssignedTo(id) ==
    [t \in DOMAIN tasks |->
        [tasks[t] EXCEPT !.assignedTo = @ \ {id}]]

\* cascade that writes nothing, as if it ran after the removal of the user.
cascade_skipped(user, id) == tasks

\* deleteUserProfile: the cascade chosen by the stored role.
cascade(user, id) ==
    IF user.role = "admin" THEN deleteManyCreatedBy(id) ELSE pullAssignedTo(id)

\* The documents the cascade's filter matches.
cascadeMatched(user, id) ==
    IF user.role = "admin"
    THEN {t \in DOMAIN tasks : tasks[t].createdBy = id}
    ELSE {t \in DOMAIN tasks : id \in tasks[t].assignedTo}

----------------------------------------------------------------------------
\* Task routes (taskRoutes.js).  failAt: the store operation that throws when
\* the handler calls it, "none" when the store works; a handler that never
\* calls it runs as usual.

\* router.get("/", protect, getAllTasks)
getAllTasks(user, status, failAt) ==
    LET res(code, message, found) ==
            Response("getAllTasks", user, "", StatusBody(status), code, message, found, "")
    IN  /\ UNCHANGED conc
        /\ UNCHANGED <<users, tasks>>
        /\ last' = IF failAt \in {"find", "countDocuments"}
                   THEN ServerError(res(500, "", {}), failAt)
                   ELSE res(200, "", visibleTasks(user, status))

\* router.get("/:id", protect, getTaskById)
getTaskById(user, id, failAt) ==
    LET res(code, message, found) ==
            Response("getTaskById", user, id, NoBody, code, message, found, "")
    IN  /\ UNCHANGED conc
        /\ UNCHANGED <<users, tasks>>
        /\ last' = IF ~isValid(id) THEN res(404, "Task not found", {})
                   ELSE IF failAt = "findById" THEN ServerError(res(500, "", {}), failAt)
                   ELSE IF CastError(id) THEN ServerError(res(500, "", {}), "CastError")
                   ELSE IF id \notin DOMAIN tasks THEN res(404, "Task not found", {})
                   ELSE res(200, "", {id})

\* router.post("/", protect, adminOnly, createNewTask)
\* id: the _id the store gives the new document.
createNewTask(user, body, id, failAt) ==
    LET res(rid, code, message) ==
            Response("createNewTask", user, rid, body, code, message, {}, "")
    IN  /\ UNCHANGED conc
        /\ id \notin DOMAIN tasks
        /\ UNCHANGED users
        /\ IF ~adminOnly(user)
           THEN /\ tasks' = tasks
                /\ last' = res("", 403, "Access denied, Only for admin")
           ELSE IF "assignedTo" \notin body.has
           THEN /\ tasks' = tasks
                /\ last' = res("", 400, "assignedTo must be an array of user IDs")
           ELSE IF failAt = "create"
           THEN /\ tasks' = tasks
                /\ last' = ServerError(res("", 500, ""), failAt)
           ELSE /\ tasks' = [t \in DOMAIN tasks \cup {id} |->
                                IF t = id
                                THEN [NewTask(body.assignedTo, user._id,
                                              body.todoCheckList)
                                        EXCEPT !.title = body.title]
                                ELSE tasks[t]]
                /\ last' = res(id, 201, "Task created successfully")

\* router.put("/:id", protect, updateTask)
updateTask(user, id, body, failAt) ==
    LET res(code, message) ==
            Response("updateTask", user, id, body, code, message, {}, "")
    IN  /\ UNCHANGED conc
        /\ UNCHANGED users
        /\ IF ~isValid(id)
           THEN tasks' = tasks /\ last' = res(404, "Task not found")
           ELSE IF failAt = "findById"
           THEN tasks' = tasks /\ last' = ServerError(res(500, ""), failAt)
           ELSE IF CastError(id)
           THEN tasks' = tasks /\ last' = ServerError(res(500, ""), "CastError")
           ELSE IF id \notin DOMAIN tasks
           THEN tasks' = tasks /\ last' = res(404, "Task not found")
           ELSE IF failAt = "save"
           THEN tasks' = tasks /\ last' = ServerError(res(500, ""), failAt)
           ELSE /\ tasks' = [tasks EXCEPT ![id] = ObjectAssign(@, body)]
                /\ last' = res(200, "Task updated successfully")

\* router.put("/:id/status", protect, updateTaskStatus)
updateTaskStatus(user, id, body, failAt) ==
    LET res(code, message) ==
            Response("updateTaskStatus", user, id, body, code, message, {}, "")
    IN  /\ UNCHANGED conc
        /\ UNCHANGED users
        /\ IF ~isValid(id)
           THEN tasks' = tasks /\ last' = res(404, "Task not found")
           ELSE IF failAt = "findById"
           THEN tasks' = tasks /\ last' = ServerError(res(500, ""), failAt)
           ELSE IF CastError(id)
           THEN tasks' = tasks /\ last' = ServerError(res(500, ""), "CastError")
           ELSE IF id \notin DOMAIN tasks
           THEN tasks' = tasks /\ last' = res(404, "Task not found")
           ELSE IF ~mayUpdate(tasks[id], user)
           THEN tasks' = tasks /\ last' = res(403, "Not authorized")
           ELSE IF failAt = "save"
           THEN tasks' = tasks /\ last' = ServerError(res(500, ""), failAt)
           ELSE /\ tasks' = [tasks EXCEPT ![id] = applyStatusUpdate(@, body)]
                /\ last' = res(200, "Task updated successfully")

\* router.put("/:id/todo", protect, updateTaskCheckList)
updateTaskCheckList(user, id, body, failAt) ==
    LET res(code, message) ==
            Response("updateTaskCheckList", user, id, body, code, message, {}, "")
    IN  /\ UNCHANGED conc
        /\ UNCHANGED users
        /\ IF ~isValid(id)
           THEN tasks' = tasks /\ last' = res(404, "Task not found")
           ELSE IF failAt = "findById"
           THEN tasks' = tasks /\ last' = ServerError(res(500, ""), failAt)
           ELSE IF CastError(id)
           THEN tasks' = tasks /\ last' = ServerError(res(500, ""), "CastError")
           ELSE IF id \notin DOMAIN tasks
           THEN tasks' = tasks /\ last' = res(404, "Task not found")
           ELSE IF ~mayUpdate(tasks[id], user)
           THEN tasks' = tasks /\ last' = res(403, "Not authorized")
           ELSE IF ~canFilter(body)
           \* todoCheckList.filter throws before task.save()
           THEN tasks' = tasks /\ last' = ServerError(res(500, ""), "TypeError")
           ELSE IF failAt = "save"
           THEN tasks' = tasks /\ last' = ServerError(res(500, ""), failAt)
           \* updatedTask: the task is read again after the save
           ELSE /\ tasks' = [tasks EXCEPT
                                ![id] = applyChecklistUpdate(@, body.todoCheckList)]
                /\ last' = IF failAt = "updatedTask"
                           THEN ServerError(res(500, ""), failAt)
                           ELSE res(200, "Task checklist updated successfully")

\* router.delete("/:id", protect, adminOnly, deleteTask)
deleteTask(user, id, failAt) ==
    LET res(code, message) ==
            Response("deleteTask", user, id, NoBody, code, message, {}, "")
    IN  /\ UNCHANGED conc
        /\ UNCHANGED users
        /\ IF ~adminOnly(user)
           THEN tasks' = tasks /\ last' = res(403, "Access denied, Only for admin")
           ELSE IF ~isValid(id)
           THEN tasks' = tasks /\ last' = res(404, "Task not found")
           ELSE IF failAt = "findById"
           THEN tasks' = tasks /\ last' = ServerError(res(500, ""), failAt)
           ELSE IF CastError(id)
           THEN tasks' = tasks /\ last' = ServerError(res(500, ""), "CastError")
           ELSE IF id \notin DOMAIN tasks
           THEN tasks' = tasks /\ last' = res(404, "Task not found")
           ELSE IF failAt = "deleteOne"
           THEN tasks' = tasks /\ last' = ServerError(res(500, ""), failAt)
           ELSE /\ tasks' = [t \in DOMAIN tasks \ {id} |-> tasks[t]]
                /\ last' = res(200, "Task deleted successfully")

----------------------------------------------------------------------------
\* Auth and user routes.

\* process.env.ADMIN_INVITE_TOKEN, and what a request may send for it.
ADMIN_INVITE_TOKEN == "admin123"
InviteTokens == {"", "admin123", "wrong"}

\* signUpRole that takes any token that was sent.
signUpRole_anyToken(adminInviteToken) ==
    IF adminInviteToken # "" THEN "admin" ELSE "user"

\* signUpUser: role = "admin" iff adminInviteToken is truthy and equals the
\* configured token.
signUpRole(adminInviteToken) ==
    IF adminInviteToken # "" /\ adminInviteToken = ADMIN_INVITE_TOKEN
    THEN "admin"
    ELSE "user"

\* User.findOne({ email }): the ids of the users found.
findOneByEmail(email) == {u \in DOMAIN users : users[u].email = email}

\* router.post("/signup", signUpUser)
\* id: the _id the store gives the new document.
signUpUser(email, adminInviteToken, id, failAt) ==
    LET res(rid, code, message, role) ==
            Response("signUpUser", NoActor, rid, NoBody, code, message, {}, role)
    IN  /\ UNCHANGED conc
        /\ id \notin DOMAIN users
        /\ UNCHANGED tasks
        /\ IF failAt = "findOne"
           THEN users' = users /\ last' = ServerError(res("", 500, "", ""), failAt)
           ELSE IF findOneByEmail(email) # {}
           THEN users' = users /\ last' = res("", 400, "User already exists", "")
           ELSE IF failAt = "create"
           THEN users' = users /\ last' = ServerError(res("", 500, "", ""), failAt)
           ELSE LET role == signUpRole(adminInviteToken)
                IN  /\ users' = [u \in DOMAIN users \cup {id} |->
                                    IF u = id THEN [role |-> role, email |-> email]
                                    ELSE users[u]]
                    /\ last' = res(id, 201, "", role)

\* router.delete("/profile", protect, deleteUserProfile).  failAt: the store
\* or image-host operation that throws, if any.  The image is removed only for
\* a user with a profileImageUrl; the model keeps no such field and lets the
\* removal fail for any user.
FailPoints == {"none", "findById", "cascade", "delete_resources", "findByIdAndDelete"}

\* deleteUserProfile with the user record removed before the image: a failing
\* image removal then leaves the account deleted.
deleteUserProfile_removeFirst(user, failAt) ==
    LET id == user._id
        res(code, message, found, role) ==
            Response("deleteUserProfile", user, "", NoBody, code, message, found, role)
    IN  /\ UNCHANGED conc
        /\ IF failAt = "findById"
           THEN /\ UNCHANGED <<users, tasks>>
                /\ last' = ServerError(res(500, "", {}, ""), failAt)
           ELSE IF id \notin DOMAIN users
           THEN /\ UNCHANGED <<users, tasks>>
                /\ last' = res(404, "User not found", {}, "")
           ELSE IF failAt = "cascade"
           THEN /\ UNCHANGED <<users, tasks>>
                /\ last' = ServerError(res(500, "", {}, users[id].role), failAt)
           ELSE IF failAt = "findByIdAndDelete"
           THEN /\ tasks' = cascade(users[id], id)
                /\ users' = users
                /\ last' = ServerError(res(500, "", cascadeMatched(users[id], id),
                                           users[id].role), failAt)
           ELSE /\ tasks' = cascade(users[id], id)
                /\ users' = [u \in DOMAIN users \ {id} |-> users[u]]
                /\ last' = IF failAt = "delete_resources"
                           THEN ServerError(res(500, "", cascadeMatched(users[id], id),
                                                users[id].role), failAt)
                           ELSE res(200, "User deleted successfully",
                                    cascadeMatched(users[id], id), users[id].role)

deleteUserProfile(user, failAt) ==
    LET id == user._id
        res(code, message, found, role) ==
            Response("deleteUserProfile", user, "", NoBody, code, message, found, role)
    IN  /\ UNCHANGED conc
        /\ IF failAt = "findById"
           THEN /\ UNCHANGED <<users, tasks>>
                /\ last' = ServerError(res(500, "", {}, ""), failAt)
           ELSE IF id \notin DOMAIN users
           THEN /\ UNCHANGED <<users, tasks>>
                /\ last' = res(404, "User not found", {}, "")
           ELSE IF failAt = "cascade"
           THEN /\ UNCHANGED <<users, tasks>>
                /\ last' = ServerError(res(500, "", {}, users[id].role), failAt)
           ELSE IF failAt \in {"delete_resources", "findByIdAndDelete"}
           THEN /\ tasks' = cascade(users[id], id)
                /\ users' = users
                /\ last' = ServerError(res(500, "", cascadeMatched(users[id], id),
                                           users[id].role), failAt)
           ELSE /\ tasks' = cascade(users[id], id)
                /\ users' = [u \in DOMAIN users \ {id} |-> users[u]]
                /\ last' = res(200, "User deleted successfully",
                               cascadeMatched(users[id], id), users[id].role)

\* router.get("/", protect, adminOnly, getUsers)
getUsers(user, failAt) ==
    LET res(code, message, found) ==
            Response("getUsers", user, "", NoBody, code, message, found, "")
        found == {u \in DOMAIN users : users[u].role = "user"}
    IN  /\ UNCHANGED conc
        /\ UNCHANGED <<users, tasks>>
        /\ last' = IF ~adminOnly(user)
                   THEN res(403, "Access denied, Only for admin", {})
                   \* Task.countDocuments runs once per user found
                   ELSE IF failAt = "find" \/ (failAt = "countDocuments" /\ found # {})
                   THEN ServerError(res(500, "", {}), failAt)
                   ELSE res(200, "", found)

\* router.get("/:id", protect, adminOnly, getUserById)
getUserById(user, id, failAt) ==
    LET res(code, message, found) ==
            Response("getUserById", user, id, NoBody, code, message, found, "")
    IN  /\ UNCHANGED conc
        /\ UNCHANGED <<users, tasks>>
        /\ last' = IF ~adminOnly(user)
                   THEN res(403, "Access denied, Only for admin", {})
                   \* User.findById casts the id itself: a malformed one throws
                   ELSE IF failAt = "findById" THEN ServerError(res(500, "", {}), failAt)
                   ELSE IF CastError(id) THEN ServerError(res(500, "", {}), "CastError")
                   ELSE IF id \notin DOMAIN users THEN res(404, "User not found", {})
                   ELSE res(200, "", {id})

----------------------------------------------------------------------------
\* Request inputs.
StatusBodies == {NoBody} \cup {StatusBody(s) : s \in Statuses}
CheckListBodies == {NoBody} \cup {CheckListBody(c) : c \in CheckLists}
CreateBodies(assignees, lists) ==
    {NoBody} \cup
    {[NoBody EXCEPT !.has = {"assignedTo", "todoCheckList"},
                    !.assignedTo = a, !.todoCheckList = c] :
        a \in assignees, c \in lists}
UpdateBodies(assignees, lists, progresses) ==
    {StatusBody(s) : s \in Statuses} \cup {CheckListBody(c) : c \in lists}
        \cup {AssignedBody(a) : a \in assignees}
        \cup {ProgressBody(p) : p \in progresses}
\* Requests on /:id: every body on every well-formed id, and a malformed id,
\* which the handlers turn away before they read the body.
TaskRequests(ids, bodies) ==
    [id : ids, body : bodies] \cup {[id |-> InvalidId, body |-> NoBody]}
UserIdParams == UserIds \cup {InvalidId}

\* The store never fails in Spec and SpecStore.
NoFault == {"none"}

\* The two users the tests create before each suite.
SeedUsers ==
    [u \in UserIds |->
        IF u = "u1" THEN [role |-> "admin", email |-> "admin@example.com"]
        ELSE [role |-> "user", email |-> "user@example.com"]]

\* No request in flight; every document at the version it is created with.
NoCalls == [p \in {} |-> 0]
NoVersions == [t \in TaskIds |-> 0]

\* The store the task tests start from: an admin, a plain user, no task.
Init ==
    /\ users = SeedUsers
    /\ tasks = [t \in {} |-> NewTask({}, "u1", <<>>)]
    /\ last = Response("init", NoActor, "", NoBody, 0, "", {}, "")
    /\ calls = NoCalls
    /\ versionKey = NoVersions

\* Two signed-up users of either role, no task.
InitStore ==
    /\ \E r \in [UserIds -> Roles] :
            users = [u \in UserIds |-> [SeedUsers[u] EXCEPT !.role = r[u]]]
    /\ tasks = [t \in {} |-> NewTask({}, "u1", <<>>)]
    /\ last = Response("init", NoActor, "", NoBody, 0, "", {}, "")
    /\ calls = NoCalls
    /\ versionKey = NoVersions

----------------------------------------------------------------------------
(***************************************************************************)
(* Spec: the task routes over one task document, called by an admin and by *)
(* a plain user (the two tokens of test/task.test.js), with every          *)
(* checklist up to MaxLen.                                                 *)
(***************************************************************************)
EngineActors == {[_id |-> "u1", role |-> "admin"], [_id |-> "u2", role |-> "user"]}
EngineTaskIds == {"t1"}
EngineIdParams == EngineTaskIds \cup {InvalidId}
\* assignedTo as the tests set it: the admin alone, or the plain user alone.
EngineAssignees == {{"u1"}, {"u2"}}
\* The checklists a general update carries.
EngineUpdateLists == {c \in CheckLists : Len(c) <= 1}
\* The progress values a general update carries.
EngineUpdateProgress == {0, 150}

Next ==
    \/ \E user \in EngineActors, status \in Statuses \cup {""}, failAt \in NoFault :
            getAllTasks(user, status, failAt)
    \/ \E user \in EngineActors, id \in EngineIdParams, failAt \in NoFault :
            getTaskById(user, id, failAt)
    \/ \E user \in EngineActors, body \in CreateBodies(EngineAssignees, CheckLists),
          id \in EngineTaskIds, failAt \in NoFault :
            createNewTask(user, body, id, failAt)
    \/ \E user \in EngineActors,
          req \in TaskRequests(EngineTaskIds,
                    UpdateBodies(EngineAssignees, EngineUpdateLists,
                                 EngineUpdateProgress)),
          failAt \in NoFault :
            updateTask(user, req.id, req.body, failAt)
    \/ \E user \in EngineActors, req \in TaskRequests(EngineTaskIds, StatusBodies),
          failAt \in NoFault :
            updateTaskStatus(user, req.id, req.body, failAt)
    \/ \E user \in EngineActors,
          req \in TaskRequests(EngineTaskIds, CheckListBodies),
          failAt \in NoFault :
            updateTaskCheckList(user, req.id, req.body, failAt)
    \/ \E user \in EngineActors, id \in EngineIdParams, failAt \in NoFault :
            deleteTask(user, id, failAt)

Spec == Init /\ [][Next]_vars

(***************************************************************************)
(* SpecStore: the two collections together.  Users delete their accounts;  *)
(* tasks are created and deleted; users are listed.  Every stored user     *)
(* calls with a token that carries the stored role, as the tests sign      *)
(* them.  Checklists stay empty.                                           *)
(***************************************************************************)
StoreActors == {[_id |-> u, role |-> users[u].role] : u \in DOMAIN users}
StoreIdParams == TaskIds \cup {InvalidId}

NextStore ==
    \/ \E user \in StoreActors, body \in CreateBodies(SUBSET UserIds, {<<>>}), id \in TaskIds,
          failAt \in NoFault :
            createNewTask(user, body, id, failAt)
    \/ \E user \in StoreActors, id \in StoreIdParams, failAt \in NoFault :
            deleteTask(user, id, failAt)
    \/ \E user \in StoreActors, failAt \in FailPoints :
            deleteUserProfile(user, failAt)
    \/ \E user \in StoreActors, failAt \in NoFault :
            getUsers(user, failAt)
    \/ \E user \in StoreActors, id \in UserIdParams, failAt \in NoFault :
            getUserById(user, id, failAt)

SpecStore == InitStore /\ [][NextStore]_vars

----------------------------------------------------------------------------
(***************************************************************************)
(* SpecRace: two status or checklist updates of one stored task, each run  *)
(* as its two store operations: Task.findById, then task.save().  What the *)
(* handler does in between works on the document it read.                  *)
(***************************************************************************)
Procs == {"p1", "p2"}

\* The locals of an update in flight.  doc, v: the document findById returned
\* and its __v; mem: the document as the handler saved it; readAt: the number
\* of requests answered before the read; seq: the request's place among the
\* answers.
IdleCall ==
    [pc |-> "idle", op |-> "", actor |-> NoActor, id |-> "", body |-> NoBody,
     doc |-> NewTask({}, "", <<>>), v |-> 0, mem |-> NewTask({}, "", <<>>),
     readAt |-> 0, seq |-> 0, code |-> 0, error |-> ""]

Answered == Cardinality({p \in DOMAIN calls : calls[p].pc = "done"})

\* The end of a request: its response, kept with the call.
Answer(p, code, message, error) ==
    LET c == calls[p]
        r == Response(c.op, c.actor, c.id, c.body, code, message, {}, "")
    IN  /\ calls' = [calls EXCEPT ![p].pc = "done", ![p].code = code,
                                  ![p].error = error, ![p].seq = Answered + 1]
        /\ last' = IF code = 500 THEN ServerError(r, error) ELSE r

\* The handler from its first line to Task.findById(id).
findTask(p, op, user, id, body) ==
    /\ calls[p].pc = "idle"
    /\ UNCHANGED <<users, tasks, versionKey>>
    /\ IF ~isValid(id) \/ id \notin DOMAIN tasks
       THEN LET r == Response(op, user, id, body, 404, "Task not found", {}, "")
            IN  /\ calls' = [calls EXCEPT
                                ![p] = [IdleCall EXCEPT
                                            !.pc = "done", !.op = op, !.actor = user,
                                            !.id = id, !.body = body, !.code = 404,
                                            !.readAt = Answered,
                                            !.seq = Answered + 1]]
                /\ last' = r
       ELSE /\ calls' = [calls EXCEPT
                            ![p] = [IdleCall EXCEPT
                                        !.pc = "loaded", !.op = op, !.actor = user,
                                        !.id = id, !.body = body,
                                        !.doc = tasks[id], !.mem = tasks[id],
                                        !.v = versionKey[id],
                                        !.readAt = Answered]]
            /\ last' = last

\* The paths of the document the handler modified.  The assignment of an
\* equal status or progress marks nothing; the checklist assigned from the
\* request body is an array of new subdocuments and always marks its path;
\* item.completed = true marks the items it changes.
modifiedPaths(op, doc, mem) ==
    {f \in {"status", "progress", "todoCheckList"} : mem[f] # doc[f]}
        \cup (IF op = "updateTaskCheckList" THEN {"todoCheckList"} ELSE {})

\* document.save(): one updateOne that $sets the modified paths.  A $set of a
\* whole array (task.todoCheckList = ...) asks for the __v the document was
\* read with and increments it; a $set inside array elements
\* (item.completed = true) asks for that __v without incrementing; any other
\* path asks for nothing.  No matching document: the save throws VersionError.
saveAsksVersion(op, doc, mem) == "todoCheckList" \in modifiedPaths(op, doc, mem)
saveIncrementsVersion(op, doc, mem) == op = "updateTaskCheckList"

\* The stored document after the $set of the modified paths.
saved(stored, op, doc, mem) ==
    LET m == modifiedPaths(op, doc, mem)
    IN  [stored EXCEPT
            !.status = IF "status" \in m THEN mem.status ELSE @,
            !.progress = IF "progress" \in m THEN mem.progress ELSE @,
            !.todoCheckList =
                IF "todoCheckList" \notin m THEN @
                ELSE IF op = "updateTaskCheckList" THEN mem.todoCheckList
                ELSE [i \in DOMAIN @ |->
                        IF i \in DOMAIN mem.todoCheckList
                           /\ mem.todoCheckList[i] # doc.todoCheckList[i]
                        THEN mem.todoCheckList[i]
                        ELSE @[i]]]

\* The handler from the authorization test to its response.
saveTask(p) ==
    LET c == calls[p]
        mem == IF c.op = "updateTaskStatus"
               THEN applyStatusUpdate(c.doc, c.body)
               ELSE applyChecklistUpdate(c.doc, c.body.todoCheckList)
        message == IF c.op = "updateTaskStatus"
                   THEN "Task updated successfully"
                   ELSE "Task checklist updated successfully"
    IN  /\ c.pc = "loaded"
        /\ UNCHANGED users
        /\ IF ~mayUpdate(c.doc, c.actor)
           THEN /\ UNCHANGED <<tasks, versionKey>>
                /\ Answer(p, 403, "Not authorized", "")
           ELSE IF c.op = "updateTaskCheckList" /\ ~canFilter(c.body)
           THEN /\ UNCHANGED <<tasks, versionKey>>
                /\ Answer(p, 500, "Server error", "TypeError")
           ELSE IF modifiedPaths(c.op, c.doc, mem) = {}
           THEN /\ UNCHANGED <<tasks, versionKey>>
                /\ Answer(p, 200, message, "")
           ELSE IF \/ c.id \notin DOMAIN tasks
                   \/ saveAsksVersion(c.op, c.doc, mem) /\ versionKey[c.id] # c.v
           THEN /\ UNCHANGED <<tasks, versionKey>>
                /\ Answer(p, 500, "Server error", "VersionError")
           ELSE /\ tasks' = [tasks EXCEPT ![c.id] = saved(@, c.op, c.doc, mem)]
                /\ versionKey' =
                        IF saveIncrementsVersion(c.op, c.doc, mem)
                        THEN [versionKey EXCEPT ![c.id] = @ + 1]
                        ELSE versionKey
                /\ calls' = [calls EXCEPT
                                ![p].pc = "done", ![p].code = 200, ![p].mem = mem,
                                ![p].seq = Answered + 1]
                /\ last' = Response(c.op, c.actor, c.id, c.body, 200, message, {}, "")

\* The checklists of the race: those of at most two items.
RaceLists == {c \in CheckLists : Len(c) <= 2}
RaceRequests ==
    [op : {"updateTaskStatus"}, body : StatusBodies]
        \cup [op : {"updateTaskCheckList"},
              body : {NoBody} \cup {CheckListBody(c) : c \in RaceLists}]

\* One task, created by the admin for the plain user with some checklist.
InitRace ==
    /\ users = SeedUsers
    /\ \E c \in RaceLists : tasks = [t \in {"t1"} |-> NewTask({"u2"}, "u1", c)]
    /\ last = Response("init", NoActor, "", NoBody, 0, "", {}, "")
    /\ calls = [p \in Procs |-> IdleCall]
    /\ versionKey = NoVersions

NextRace ==
    \/ \E p \in Procs, user \in EngineActors, req \in RaceRequests :
            findTask(p, req.op, user, "t1", req.body)
    \/ \E p \in Procs : saveTask(p)

SpecRace == InitRace /\ [][NextRace]_vars

----------------------------------------------------------------------------
(***************************************************************************)
(* SpecDash: a dashboard request run as its separate queries, the four     *)
(* countDocuments and the $group aggregate, while an admin creates,        *)
(* updates and deletes the one task.  The queries on dueDate and priority  *)
(* and the recent tasks are fields the model does not keep.                *)
(***************************************************************************)
Dashboards == {"getDashboardData", "getUserDashboardData"}

\* { assignedTo: { $in: [userId] } } of the scoped dashboard; {} of the global.
baseMatch(op, user) ==
    {t \in DOMAIN tasks :
        op = "getUserDashboardData" => user._id \in tasks[t].assignedTo}

\* Task.countDocuments({ ...baseMatch, status })
countDocuments(op, user, status) ==
    Cardinality({t \in baseMatch(op, user) : tasks[t].status = status})

\* taskStatuses.reduce over the $group result: one count per status, 0 for a
\* status no task has, and All set from totalTasks.
taskDistribution(op, user, totalTasks) ==
    [Pending |-> countDocuments(op, user, "Pending"),
     InProgress |-> countDocuments(op, user, "In Progress"),
     Completed |-> countDocuments(op, user, "Completed"),
     All |-> totalTasks]

\* The locals of a dashboard request; pc names the query it runs next.
IdleDashboard ==
    [pc |-> "idle", op |-> "", actor |-> NoActor, totalTasks |-> 0,
     pendingTasks |-> 0, inProgressTasks |-> 0, completedTasks |-> 0,
     taskDistribution |-> [Pending |-> 0, InProgress |-> 0, Completed |-> 0,
                           All |-> 0],
     code |-> 0]

\* const totalTasks = await Task.countDocuments(baseMatch)
countTotal(p, op, user) ==
    /\ calls[p].pc \in {"idle", "done"}
    /\ UNCHANGED <<users, tasks, last, versionKey>>
    /\ calls' = [calls EXCEPT
                    ![p] = [IdleDashboard EXCEPT
                                !.pc = "Pending", !.op = op, !.actor = user,
                                !.totalTasks =
                                    Cardinality(baseMatch(op, user))]]

\* pendingTasks, inProgressTasks, completedTasks: one countDocuments each.
countStatus(p) ==
    LET c == calls[p]
        n == countDocuments(c.op, c.actor, c.pc)
    IN  /\ c.pc \in Statuses
        /\ UNCHANGED <<users, tasks, last, versionKey>>
        /\ calls' =
            [calls EXCEPT
                ![p] = IF c.pc = "Pending"
                       THEN [c EXCEPT !.pendingTasks = n, !.pc = "In Progress"]
                       ELSE IF c.pc = "In Progress"
                       THEN [c EXCEPT !.inProgressTasks = n, !.pc = "Completed"]
                       ELSE [c EXCEPT !.completedTasks = n, !.pc = "aggregate"]]

\* Task.aggregate([... $group by status]), the reduce, and the 200.
aggregate(p) ==
    LET c == calls[p]
    IN  /\ c.pc = "aggregate"
        /\ UNCHANGED <<users, tasks, versionKey>>
        /\ calls' = [calls EXCEPT
                        ![p] = [c EXCEPT
                                    !.pc = "done", !.code = 200,
                                    !.taskDistribution =
                                        taskDistribution(c.op, c.actor,
                                                         c.totalTasks)]]
        /\ last' = Response(c.op, c.actor, "", NoBody, 200, "", {}, "")

DashAdmin == {[_id |-> "u1", role |-> "admin"]}

InitDash ==
    /\ users = SeedUsers
    /\ tasks = [t \in {} |-> NewTask({}, "u1", <<>>)]
    /\ last = Response("init", NoActor, "", NoBody, 0, "", {}, "")
    /\ calls = [p \in {"p1"} |-> IdleDashboard]
    /\ versionKey = NoVersions

NextDash ==
    \/ \E op \in Dashboards, user \in EngineActors : countTotal("p1", op, user)
    \/ countStatus("p1")
    \/ aggregate("p1")
    \/ \E user \in DashAdmin, body \in CreateBodies(EngineAssignees, {<<>>}),
          id \in EngineTaskIds, failAt \in NoFault :
            createNewTask(user, body, id, failAt)
    \/ \E user \in DashAdmin, req \in TaskRequests(EngineTaskIds, StatusBodies),
          failAt \in NoFault :
            updateTaskStatus(user, req.id, req.body, failAt)
    \/ \E user \in DashAdmin, id \in EngineTaskIds, failAt \in NoFault :
            deleteTask(user, id, failAt)

SpecDash == InitDash /\ [][NextDash]_vars

----------------------------------------------------------------------------
(***************************************************************************)
(* SpecSignup: two requests that write an email, a signup or a profile     *)
(* update each, run as their store operations: the existence query         *)
(* User.findOne({ email }), then User.create or user.save().               *)
(***************************************************************************)
Emails == {"admin@example.com", "user@example.com", "new@example.com"}

\* The _id the store gives the user a process signs up.
NewId(p) == IF p = "p1" THEN "u3" ELSE "u4"

\* The unique index on User.email: a write of email to the document id is
\* rejected with a duplicate key error when another document holds it.
duplicateKey(email, id) ==
    \E u \in DOMAIN users \ {id} : users[u].email = email

\* The locals of a signup or profile update.  doc: the user findById
\* returned; held: another user held the email when the request was answered;
\* stored: the request wrote to the collection.
IdleAuth ==
    [pc |-> "idle", op |-> "", actor |-> NoActor, email |-> "",
     adminInviteToken |-> "", doc |-> [role |-> "", email |-> ""], code |-> 0,
     message |-> "", error |-> "", held |-> FALSE, stored |-> FALSE]

\* The end of a signup or profile update.
AuthAnswer(p, c, id, code, message, error, held, stored) ==
    LET r == Response(c.op, c.actor, id, NoBody, code, message, {}, "")
    IN  /\ calls' = [calls EXCEPT
                        ![p] = [c EXCEPT !.pc = "done", !.code = code,
                                         !.message = message, !.error = error,
                                         !.held = held, !.stored = stored]]
        /\ last' = IF code = 500 THEN ServerError(r, error) ELSE r

\* signUpUser up to the existence check.
signUpFindOne(p, email, adminInviteToken) ==
    LET c == [IdleAuth EXCEPT !.op = "signUpUser", !.email = email,
                              !.adminInviteToken = adminInviteToken]
    IN  /\ calls[p].pc = "idle"
        /\ UNCHANGED <<users, tasks, versionKey>>
        /\ IF findOneByEmail(email) # {}
           THEN AuthAnswer(p, c, "", 400, "User already exists", "", TRUE, FALSE)
           ELSE /\ calls' = [calls EXCEPT ![p] = [c EXCEPT !.pc = "create"]]
                /\ last' = last

\* signUpUser from the role to the response: User.create.
signUpCreate(p) ==
    LET c == calls[p]
        id == NewId(p)
        role == signUpRole(c.adminInviteToken)
    IN  /\ c.pc = "create"
        /\ UNCHANGED <<tasks, versionKey>>
        /\ IF duplicateKey(c.email, id)
           THEN /\ users' = users
                /\ AuthAnswer(p, c, "", 500, "Server error", "duplicate key",
                              TRUE, FALSE)
           ELSE /\ users' = [u \in DOMAIN users \cup {id} |->
                                IF u = id THEN [role |-> role, email |-> c.email]
                                ELSE users[u]]
                /\ AuthAnswer(p, c, id, 201, "", "", FALSE, TRUE)

\* updateUserProfile up to User.findById(req.user._id).  email: req.body.email,
\* "" when the body has none.
profileFindById(p, user, email, adminInviteToken) ==
    LET c == [IdleAuth EXCEPT !.op = "updateUserProfile", !.actor = user,
                              !.email = email,
                              !.adminInviteToken = adminInviteToken]
    IN  /\ calls[p].pc = "idle"
        /\ UNCHANGED <<users, tasks, versionKey>>
        /\ IF user._id \notin DOMAIN users
           THEN AuthAnswer(p, c, user._id, 404, "User not found", "", FALSE, FALSE)
           ELSE /\ calls' =
                    [calls EXCEPT
                        ![p] = [c EXCEPT
                                    !.doc = users[user._id],
                                    !.pc = IF email # ""
                                              /\ email # users[user._id].email
                                           THEN "findOne" ELSE "save"]]
                /\ last' = last

\* updateUserProfile: the existence check of a changed email.
profileFindOne(p) ==
    LET c == calls[p]
    IN  /\ c.pc = "findOne"
        /\ UNCHANGED <<users, tasks, versionKey>>
        /\ IF findOneByEmail(c.email) # {}
           THEN AuthAnswer(p, c, c.actor._id, 400, "User already exists", "",
                           TRUE, FALSE)
           ELSE /\ calls' = [calls EXCEPT ![p].pc = "save"]
                /\ last' = last

\* updateUserProfile: the role, user.save() and the response.  The save
\* writes the paths that changed.
profileSave(p) ==
    LET c == calls[p]
        id == c.actor._id
        newEmail == c.email # "" /\ c.email # c.doc.email
        newRole == /\ c.adminInviteToken # ""
                   /\ c.adminInviteToken = ADMIN_INVITE_TOKEN
                   /\ c.doc.role = "user"
        held == newEmail /\ duplicateKey(c.email, id)
    IN  /\ c.pc = "save"
        /\ UNCHANGED <<tasks, versionKey>>
        /\ IF held
           THEN /\ users' = users
                /\ AuthAnswer(p, c, id, 500, "Server error", "duplicate key",
                              TRUE, FALSE)
           ELSE IF id \notin DOMAIN users
           THEN /\ users' = users
                /\ AuthAnswer(p, c, id, 500, "Server error",
                              "DocumentNotFoundError", FALSE, FALSE)
           ELSE /\ users' = [users EXCEPT
                                ![id].email = IF newEmail THEN c.email ELSE @,
                                ![id].role = IF newRole THEN "admin" ELSE @]
                /\ AuthAnswer(p, c, id, 200, "User updated successfully", "",
                              FALSE, newEmail \/ newRole)

SignupTokens == InviteTokens

InitSignup ==
    /\ users = SeedUsers
    /\ tasks = [t \in {} |-> NewTask({}, "u1", <<>>)]
    /\ last = Response("init", NoActor, "", NoBody, 0, "", {}, "")
    /\ calls = [p \in Procs |-> IdleAuth]
    /\ versionKey = NoVersions

NextSignup ==
    \/ \E p \in Procs, email \in Emails, token \in SignupTokens :
            signUpFindOne(p, email, token)
    \/ \E p \in Procs : signUpCreate(p)
    \/ \E p \in Procs, user \in EngineActors, email \in Emails \cup {""},
          token \in SignupTokens :
            profileFindById(p, user, email, token)
    \/ \E p \in Procs : profileFindOne(p)
    \/ \E p \in Procs : profileSave(p)

SpecSignup == InitSignup /\ [][NextSignup]_vars

----------------------------------------------------------------------------
(***************************************************************************)
(* SpecGate: the protected routes behind the protect middleware.  A        *)
(* request arrives with an Authorization header; protect answers it or     *)
(* sets req.user and calls next(), and then the route's handler runs.      *)
(***************************************************************************)
\* What the Authorization header holds: nothing, a string that does not start
\* with "Bearer ", or a bearer token that jwt.verify finds expired
\* (TokenExpiredError), of a wrong signature or format (JsonWebTokenError),
\* not yet active (NotBeforeError), or good.  payload: what the token decodes to.
Credentials ==
    [kind : {"none", "notBearer", "invalid"}, payload : {NoActor}]
        \cup [kind : {"expired", "notBefore"}, payload : DashAdmin]
        \cup [kind : {"valid"}, payload : EngineActors]

\* protect that verifies with ignoreExpiration.
protect_ignoreExpiration(credential) ==
    IF credential.kind \in {"none", "notBearer"}
    THEN [next |-> FALSE, code |-> 401,
          message |-> "Not authorized, token missing or token is invalid"]
    ELSE IF credential.kind = "invalid"
    THEN [next |-> FALSE, code |-> 403,
          message |-> "Invalid token. Please log in again."]
    ELSE IF credential.kind \notin {"valid", "expired"}
    THEN [next |-> FALSE, code |-> 401, message |-> "Not authorized"]
    ELSE [next |-> TRUE, code |-> 0, message |-> ""]

\* middleware protect: the response it sends, or next().
protect(credential) ==
    IF credential.kind \in {"none", "notBearer"}
    THEN [next |-> FALSE, code |-> 401,
          message |-> "Not authorized, token missing or token is invalid"]
    ELSE IF credential.kind = "expired"
    THEN [next |-> FALSE, code |-> 401,
          message |-> "Token expired. Please log in again."]
    ELSE IF credential.kind = "invalid"
    THEN [next |-> FALSE, code |-> 403,
          message |-> "Invalid token. Please log in again."]
    ELSE IF credential.kind # "valid"
    THEN [next |-> FALSE, code |-> 401, message |-> "Not authorized"]
    ELSE [next |-> TRUE, code |-> 0, message |-> ""]

\* The routes that name protect, by their handler.
ProtectedRoutes ==
    {"getAllTasks", "getTaskById", "createNewTask", "updateTask",
     "updateTaskStatus", "updateTaskCheckList", "deleteTask", "getUsers",
     "getUserById", "getUserProfile", "deleteUserProfile"}

\* The request object on its way through a route: the header, the handler the
\* route ends in, and req.user once protect has set it.
NoRequest ==
    [pc |-> "idle", route |-> "", authorization |-> [kind |-> "none",
                                                     payload |-> NoActor],
     user |-> NoActor]

\* A request arrives on a protected route and protect runs.
receive(route, credential) ==
    LET p == protect(credential)
        req == [NoRequest EXCEPT !.route = route, !.authorization = credential]
    IN  /\ UNCHANGED <<users, tasks, versionKey>>
        /\ IF p.next
           THEN /\ calls' = [calls EXCEPT
                                !["req"] = [req EXCEPT
                                                !.pc = "next",
                                                !.user = credential.payload]]
                /\ last' = last
           ELSE /\ calls' = [calls EXCEPT !["req"] = [req EXCEPT !.pc = "answered"]]
                /\ last' = Response(route, NoActor, "", NoBody, p.code,
                                    p.message, {}, "")

\* protect has called next() on the route of this handler.
Routed(route) == calls["req"].pc = "next" /\ calls["req"].route = route

\* router.get("/profile", protect, getUserProfile)
getUserProfile(user, failAt) ==
    LET res(code, message, found) ==
            Response("getUserProfile", user, "", NoBody, code, message, found, "")
    IN  /\ UNCHANGED conc
        /\ UNCHANGED <<users, tasks>>
        /\ last' = IF failAt = "findById" THEN ServerError(res(500, "", {}), failAt)
                   ELSE IF user._id \notin DOMAIN users
                   THEN res(404, "User not found", {})
                   ELSE res(200, "", {user._id})

\* The bodies of the gate's requests: one of each kind.
GateAssignees == {{"u2"}}
GateStatusBodies == {StatusBody("Completed")}
GateLists == {<<[completed |-> FALSE]>>}

InitGate ==
    /\ users = SeedUsers
    /\ tasks = [t \in {} |-> NewTask({}, "u1", <<>>)]
    /\ last = Response("init", NoActor, "", NoBody, 0, "", {}, "")
    /\ calls = [p \in {"req"} |-> NoRequest]
    /\ versionKey = NoVersions

NextGate ==
    \/ \E route \in ProtectedRoutes, credential \in Credentials :
            receive(route, credential)
    \/ /\ Routed("getAllTasks")
       /\ getAllTasks(calls["req"].user, "", "none")
    \/ /\ Routed("getTaskById")
       /\ getTaskById(calls["req"].user, "t1", "none")
    \/ \E body \in CreateBodies(GateAssignees, {<<>>}) :
            /\ Routed("createNewTask")
            /\ createNewTask(calls["req"].user, body, "t1", "none")
    \/ \E body \in {AssignedBody(a) : a \in GateAssignees} :
            /\ Routed("updateTask")
            /\ updateTask(calls["req"].user, "t1", body, "none")
    \/ \E body \in GateStatusBodies :
            /\ Routed("updateTaskStatus")
            /\ updateTaskStatus(calls["req"].user, "t1", body, "none")
    \/ \E c \in GateLists :
            /\ Routed("updateTaskCheckList")
            /\ updateTaskCheckList(calls["req"].user, "t1", CheckListBody(c), "none")
    \/ /\ Routed("deleteTask")
       /\ deleteTask(calls["req"].user, "t1", "none")
    \/ /\ Routed("getUsers")
       /\ getUsers(calls["req"].user, "none")
    \/ /\ Routed("getUserById")
       /\ getUserById(calls["req"].user, "u2", "none")
    \/ /\ Routed("getUserProfile")
       /\ getUserProfile(calls["req"].user, "none")
    \/ /\ Routed("deleteUserProfile")
       /\ deleteUserProfile(calls["req"].user, "none")

SpecGate == InitGate /\ [][NextGate]_vars

----------------------------------------------------------------------------
(***************************************************************************)
(* SpecFault: the handlers against a store one of whose operations throws, *)
(* as the tests make Task.findById or User.find throw (jest.spyOn ...       *)
(* mockImplementation) and restore it afterwards.                          *)
(***************************************************************************)
\* The operations a test makes throw; updatedTask is the second Task.findById
\* of updateTaskCheckList, the one after the save.
StoreFaults ==
    {"none", "find", "findById", "findOne", "countDocuments", "create", "save",
     "updatedTask", "deleteOne"} \cup FailPoints

\* The store operations a handler calls on its way to a success.
StoreOps(op) ==
    CASE op = "getAllTasks" -> {"find", "countDocuments"}
      [] op = "getTaskById" -> {"findById"}
      [] op = "createNewTask" -> {"create"}
      [] op = "updateTask" -> {"findById", "save"}
      [] op = "updateTaskStatus" -> {"findById", "save"}
      [] op = "updateTaskCheckList" -> {"findById", "save", "updatedTask"}
      [] op = "deleteTask" -> {"findById", "deleteOne"}
      [] op = "signUpUser" -> {"findOne", "create"}
      [] op = "getUsers" -> {"find", "countDocuments"}
      [] op = "getUserById" -> {"findById"}
      [] op = "getUserProfile" -> {"findById"}
      [] op = "deleteUserProfile" -> FailPoints \ {"none"}
      [] OTHER -> {}

\* The state of the store: the operation that throws, if any.
StoreUp == [failing |-> "none"]

\* jest.spyOn(Model, operation).mockImplementation(() => { throw ... }), and
\* mockRestore() for "none".
mockImplementation(operation) ==
    /\ calls["store"].failing # operation
    /\ calls' = [calls EXCEPT !["store"].failing = operation]
    /\ UNCHANGED <<users, tasks, last, versionKey>>

\* What deleteUserProfile takes for a failing operation it never calls.
ProfileFailPoint(failing) == IF failing \in FailPoints THEN failing ELSE "none"

FaultLists == {<<[completed |-> TRUE]>>}
FaultEmails == {"user@example.com", "new@example.com"}

InitFault ==
    /\ users = SeedUsers
    /\ tasks = [t \in {} |-> NewTask({}, "u1", <<>>)]
    /\ last = Response("init", NoActor, "", NoBody, 0, "", {}, "")
    /\ calls = [p \in {"store"} |-> StoreUp]
    /\ versionKey = NoVersions

NextFault ==
    \/ \E operation \in StoreFaults : mockImplementation(operation)
    \/ \E user \in EngineActors : getAllTasks(user, "", calls["store"].failing)
    \/ \E user \in EngineActors : getTaskById(user, "t1", calls["store"].failing)
    \/ \E user \in EngineActors, body \in CreateBodies(GateAssignees, {<<>>}) :
            createNewTask(user, body, "t1", calls["store"].failing)
    \/ \E user \in EngineActors, body \in {AssignedBody(a) : a \in GateAssignees} :
            updateTask(user, "t1", body, calls["store"].failing)
    \/ \E user \in EngineActors, body \in GateStatusBodies :
            updateTaskStatus(user, "t1", body, calls["store"].failing)
    \/ \E user \in EngineActors,
          body \in {NoBody} \cup {CheckListBody(c) : c \in FaultLists} :
            updateTaskCheckList(user, "t1", body, calls["store"].failing)
    \/ \E user \in EngineActors : deleteTask(user, "t1", calls["store"].failing)
    \/ \E email \in FaultEmails, id \in UserIds :
            signUpUser(email, "", id, calls["store"].failing)
    \/ \E user \in EngineActors : getUsers(user, calls["store"].failing)
    \/ \E user \in EngineActors : getUserById(user, "u2", calls["store"].failing)
    \/ \E user \in EngineActors : getUserProfile(user, calls["store"].failing)
    \/ \E user \in EngineActors :
            deleteUserProfile(user, ProfileFailPoint(calls["store"].failing))

SpecFault == InitFault /\ [][NextFault]_vars

----------------------------------------------------------------------------
(***************************************************************************)
(* SpecLong: the task routes with checklists of a few items and of some    *)
(* two hundred.  A list is given by its length and the number of its       *)
(* completed items, which come first.                                      *)
(***************************************************************************)
\* Length of a long checklist.  No share of 201 or of 202 items is an exact
\* half percent, so that MathRound is Math.round of the double product.
LongLen == 201

LongList(n, k) == [i \in 1..n |-> [completed |-> i <= k]]
LongLists ==
    {LongList(n, k) : n \in {2, LongLen}, k \in {0, 1}}
        \cup {LongList(n, n - k) : n \in {2, LongLen}, k \in {0, 1}}

NextLong ==
    \/ \E user \in EngineActors, body \in CreateBodies(EngineAssignees, LongLists) :
            createNewTask(user, body, "t1", "none")
    \/ \E user \in EngineActors, s \in Statuses :
            updateTaskStatus(user, "t1", StatusBody(s), "none")
    \/ \E user \in EngineActors, c \in LongLists :
            updateTaskCheckList(user, "t1", CheckListBody(c), "none")
    \/ \E user \in EngineActors : deleteTask(user, "t1", "none")

SpecLong == Init /\ [][NextLong]_vars

----------------------------------------------------------------------------
(***************************************************************************)
(* SpecSession: clients that sign in and then call the routes with the     *)
(* token the sign-in returned.  protect decodes the token into req.user.   *)
(***************************************************************************)
Clients == {"c1", "c2"}

\* generateToken(userId): jwt.sign({ _id: userId }, ...).  The payload has no
\* role; protect reads decoded.role from it, which is undefined.
generateToken(userId) == [_id |-> userId, role |-> "undefined"]

\* What a client holds before it signs in.
NoToken == [token |-> NoActor]

\* The passwords of a sign-in request: none, the one the user signed up with,
\* another one.
Passwords == {"", "good", "bad"}

\* router.post("/signin", signInUser)
signInUser(c, email, password, failAt) ==
    LET res(id, code, message, role) ==
            Response("signInUser", NoActor, id, NoBody, code, message, {}, role)
        found == findOneByEmail(email)
        id == CHOOSE u \in found : TRUE
    IN  /\ UNCHANGED <<users, tasks, versionKey>>
        /\ IF email = "" \/ password = ""
           THEN /\ calls' = calls
                /\ last' = res("", 400, "Email and password are required", "")
           ELSE IF failAt = "findOne"
           THEN /\ calls' = calls
                /\ last' = ServerError(res("", 500, "", ""), failAt)
           ELSE IF found = {} \/ password # "good"
           THEN /\ calls' = calls
                /\ last' = res("", 401, "Invalid credentials", "")
           ELSE /\ calls' = [calls EXCEPT ![c].token = generateToken(id)]
                /\ last' = res(id, 200, "", users[id].role)

\* protect has a token of the client to verify: req.user as protect sets it.
SignedIn(c) == calls[c].token # NoActor

\* The store the user tests start from: the two users and a task the admin
\* created for the plain user.
InitSession ==
    /\ users = SeedUsers
    /\ tasks = [t \in {"t1"} |-> NewTask({"u2"}, "u1", <<>>)]
    /\ last = Response("init", NoActor, "", NoBody, 0, "", {}, "")
    /\ calls = [c \in Clients |-> NoToken]
    /\ versionKey = NoVersions

NextSession ==
    \/ \E c \in Clients, email \in Emails \cup {""}, password \in Passwords :
            signInUser(c, email, password, "none")
    \/ \E c \in Clients :
            SignedIn(c) /\ getAllTasks(calls[c].token, "", "none")
    \/ \E c \in Clients, body \in CreateBodies(GateAssignees, {<<>>}), id \in TaskIds :
            SignedIn(c) /\ createNewTask(calls[c].token, body, id, "none")
    \/ \E c \in Clients, body \in GateStatusBodies :
            SignedIn(c) /\ updateTaskStatus(calls[c].token, "t1", body, "none")
    \/ \E c \in Clients, id \in TaskIds :
            SignedIn(c) /\ deleteTask(calls[c].token, id, "none")
    \/ \E c \in Clients : SignedIn(c) /\ getUsers(calls[c].token, "none")
    \/ \E c \in Clients, id \in UserIds :
            SignedIn(c) /\ getUserById(calls[c].token, id, "none")

SpecSession == InitSession /\ [][NextSession]_vars

----------------------------------------------------------------------------
(***************************************************************************)
(* SpecFrame: status and checklist updates whose bodies carry more than    *)
(* the field the handler reads: any of status, todoCheckList, assignedTo,  *)
(* progress and title, on a task the general update retitles and           *)
(* reassigns.                                                              *)
(***************************************************************************)
FrameLists == {c \in CheckLists : Len(c) = 1}

\* Request bodies with any set of fields.
FrameBodies ==
    {[has |-> h,
      status |-> IF "status" \in h THEN s ELSE NoBody.status,
      todoCheckList |-> IF "todoCheckList" \in h THEN c ELSE NoBody.todoCheckList,
      assignedTo |-> IF "assignedTo" \in h THEN {"u1"} ELSE NoBody.assignedTo,
      progress |-> IF "progress" \in h THEN 50 ELSE NoBody.progress,
      title |-> IF "title" \in h THEN "renamed" ELSE NoBody.title] :
        h \in SUBSET {"status", "todoCheckList", "assignedTo", "progress", "title"},
        s \in {"In Progress", "Completed"}, c \in FrameLists}

\* The body of a creation: a title, the plain user as assignee, a checklist.
FrameCreateBodies ==
    {[NoBody EXCEPT !.has = {"title", "assignedTo", "todoCheckList"},
                    !.title = "created", !.assignedTo = {"u2"},
                    !.todoCheckList = c] : c \in FrameLists}

NextFrame ==
    \/ \E user \in DashAdmin, body \in FrameCreateBodies :
            createNewTask(user, body, "t1", "none")
    \/ \E user \in DashAdmin,
          body \in {AssignedBody({"u1", "u2"}), [NoBody EXCEPT !.has = {"title"},
                                                               !.title = "edited"]} :
            updateTask(user, "t1", body, "none")
    \/ \E user \in EngineActors, body \in FrameBodies :
            updateTaskStatus(user, "t1", body, "none")
    \/ \E user \in EngineActors, body \in FrameBodies :
            updateTaskCheckList(user, "t1", body, "none")

SpecFrame == Init /\ [][NextFrame]_vars

----------------------------------------------------------------------------
(***************************************************************************)
(* Properties.                                                             *)
(***************************************************************************)
Abs(x) == IF x < 0 THEN -x ELSE x

\* Number of completed items of a checklist.
NumCompleted(C) == Cardinality({i \in 1..Len(C) : C[i].completed})

\* p is 100 * num / den rounded to the nearest integer (den > 0).
IsNearestPercent(p, num, den) == 2 * Abs(p * den - 100 * num) <= den

\* p is the progress the checklist C stands for.
IsProgressOf(p, C) ==
    IF Len(C) = 0 THEN p = 0 ELSE IsNearestPercent(p, NumCompleted(C), Len(C))

AllCompleted(C) == \A i \in 1..Len(C) : C[i].completed

ChecklistUpdated == last.op = "updateTaskCheckList" /\ last.code = 200

\* C1: after a successful checklist update with checklist C, the task's stored
\* progress is 100 * completed(C) / len(C) rounded to the nearest integer, and 0
\* when C is empty.
C1_ChecklistProgress ==
    ChecklistUpdated =>
        IsProgressOf(tasks[last.id].progress, last.body.todoCheckList)

\* A checklist of three items, two completed, was stored with progress 67.
C1_Witness ==
    /\ ChecklistUpdated
    /\ Len(last.body.todoCheckList) = 3
    /\ NumCompleted(last.body.todoCheckList) = 2
    /\ tasks[last.id].progress = 67

\* C2: after every successful checklist update the stored status is Pending if
\* the new progress is 0, Completed if it is 100, In Progress otherwise.
C2_StatusFromProgress ==
    ChecklistUpdated =>
        LET task == tasks[last.id]
        IN  /\ task.progress = 0 => task.status = "Pending"
            /\ task.progress = 100 => task.status = "Completed"
            /\ task.progress \notin {0, 100} => task.status = "In Progress"

\* A checklist update with nothing completed has left the task Pending.
C2_Witness ==
    /\ ChecklistUpdated
    /\ Len(last.body.todoCheckList) > 0
    /\ tasks[last.id].progress = 0
    /\ tasks[last.id].status = "Pending"

\* C3: a request that sets a task's status to Completed directly (the status
\* update, or the general update by an admin) leaves every checklist item
\* completed and progress at 100.
C3_DirectCompleted ==
    (/\ \/ last.op = "updateTaskStatus"
        \/ last.op = "updateTask" /\ last.actor.role = "admin"
     /\ last.code = 200
     /\ "status" \in last.body.has
     /\ last.body.status = "Completed")
    => /\ tasks[last.id].progress = 100
       /\ AllCompleted(tasks[last.id].todoCheckList)

\* C4: every operation that replaces a task's checklist (checklist update,
\* general update carrying todoCheckList, creation) leaves progress equal to
\* the rounded share of completed items of the stored checklist, 0 if empty.
C4_ProgressAfterReplace ==
    (\/ ChecklistUpdated
     \/ last.op = "updateTask" /\ last.code = 200
            /\ "todoCheckList" \in last.body.has
     \/ last.op = "createNewTask" /\ last.code = 201)
    => IsProgressOf(tasks[last.id].progress, tasks[last.id].todoCheckList)

\* C5: a status or checklist update on an existing task by an actor who is
\* neither admin nor assigned ends with 403, and the task is left unchanged.
C5_Denied ==
    [][(/\ last'.op \in {"updateTaskStatus", "updateTaskCheckList"}
        /\ last'.id \in DOMAIN tasks
        /\ last'.actor.role # "admin"
        /\ last'.actor._id \notin tasks[last'.id].assignedTo)
       => (last'.code = 403 /\ last'.code # 404 /\ tasks' = tasks)]_vars

\* The plain user was refused a checklist update of a task assigned to others.
C5_Witness ==
    /\ last.op = "updateTaskCheckList"
    /\ "todoCheckList" \in last.body.has
    /\ last.code = 403
    /\ last.id \in DOMAIN tasks
    /\ last.actor._id \notin tasks[last.id].assignedTo
    /\ tasks[last.id].todoCheckList # last.body.todoCheckList

\* C6: the general update of a stored task by an actor whose role is not
\* admin is rejected with 403 and changes no stored task.
C6_UpdateAdminOnly ==
    [][(/\ last'.op = "updateTask"
        /\ last'.actor.role # "admin"
        /\ last'.id \in DOMAIN tasks)
       => (last'.code = 403 /\ tasks' = tasks)]_vars

\* C7: every task the listing or the lookup by id returns to a non-admin has
\* the actor in assignedTo; an admin's listing is every task matching the
\* status filter.
C7_Visibility ==
    /\ (/\ last.op \in {"getAllTasks", "getTaskById"}
        /\ last.code = 200
        /\ last.actor.role # "admin")
       => \A t \in last.found : last.actor._id \in tasks[t].assignedTo
    /\ (/\ last.op = "getAllTasks"
        /\ last.code = 200
        /\ last.actor.role = "admin")
       => last.found =
            {t \in DOMAIN tasks :
                last.body.status # "" => tasks[t].status = last.body.status}

\* C8: task creation, task deletion, user listing and user lookup by a
\* non-admin end with 403 'Access denied, Only for admin' and leave both
\* collections unchanged.
C8_AdminOnlyRoutes ==
    [][(/\ last'.op \in {"createNewTask", "deleteTask", "getUsers", "getUserById"}
        /\ last'.actor.role # "admin")
       => (/\ last'.code = 403
           /\ last'.message = "Access denied, Only for admin"
           /\ tasks' = tasks
           /\ users' = users)]_vars

\* A non-admin was refused the deletion of a stored task.
C8_Witness ==
    /\ last.op = "deleteTask"
    /\ last.actor.role # "admin"
    /\ last.code = 403
    /\ last.id \in DOMAIN tasks

\* C9: when an admin deletes their own account, every task they created is
\* deleted, and every task of another creator they were assigned to persists
\* with their id removed from assignedTo.
C9_AdminCascade ==
    [][(/\ last'.op = "deleteUserProfile"
        /\ last'.code = 200
        /\ last'.role = "admin")
       => \A t \in DOMAIN tasks :
            LET id == last'.actor._id
            IN  /\ tasks[t].createdBy = id => t \notin DOMAIN tasks'
                /\ (tasks[t].createdBy # id /\ id \in tasks[t].assignedTo)
                   => (/\ t \in DOMAIN tasks'
                       /\ id \notin tasks'[t].assignedTo)]_vars

\* C10: after a non-admin's successful self-deletion the user's id is in no
\* task's assignedTo, no task was deleted, and nothing else of any task
\* changed.
C10_UserCascade ==
    [][(/\ last'.op = "deleteUserProfile"
        /\ last'.code = 200
        /\ last'.role = "user")
       => LET id == last'.actor._id
          IN  /\ DOMAIN tasks' = DOMAIN tasks
              /\ \A t \in DOMAIN tasks :
                    /\ id \notin tasks'[t].assignedTo
                    /\ tasks'[t] =
                        [tasks[t] EXCEPT !.assignedTo = tasks[t].assignedTo \ {id}]
              /\ id \notin DOMAIN users']_vars

\* A plain user assigned to both tasks, one of them shared, deleted the account.
C10_Witness ==
    /\ last.op = "deleteUserProfile"
    /\ last.code = 200
    /\ last.role = "user"
    /\ last.found = TaskIds
    /\ \E t \in last.found : tasks[t].assignedTo # {}
    /\ \A t \in DOMAIN tasks : last.actor._id \notin tasks[t].assignedTo

\* The references of stored tasks to user records that do not exist.
OrphanRefs ==
    {r \in TaskIds \X UserIds :
        /\ r[1] \in DOMAIN tasks
        /\ r[2] \notin DOMAIN users
        /\ r[2] \in tasks[r[1]].assignedTo \cup {tasks[r[1]].createdBy}}

\* The deletion of an account stopped by a failure after its cascade.
DeletionFailedAfterCascade ==
    /\ last.op = "deleteUserProfile"
    /\ last.code = 500
    /\ last.error \in {"delete_resources", "findByIdAndDelete"}

\* C11 as claimed: a user deletion that fails between its steps, after a
\* cascade that matched some task, leaves a task whose assignedTo or createdBy
\* names a user record that no longer exists.
C11_FailureOrphans ==
    (DeletionFailedAfterCascade /\ last.found # {}) => OrphanRefs # {}

\* C11 amended: a user deletion that fails between its steps removes no user
\* record and adds no reference to a missing user; the account it leaves has
\* lost the tasks or assignments the cascade matched.
C11_FailureAddsNoOrphan ==
    [][(/\ last'.op = "deleteUserProfile"
        /\ last'.code = 500)
       => (/\ users' = users
           /\ OrphanRefs' \subseteq OrphanRefs
           /\ \A r \in OrphanRefs' : r[2] # last'.actor._id)]_vars

\* A plain user's deletion failed at the removal of the record: the user is
\* stored, and no task lists them any more.
C11_Witness ==
    /\ DeletionFailedAfterCascade
    /\ last.role = "user"
    /\ last.found # {}
    /\ last.actor._id \in DOMAIN users
    /\ \A t \in DOMAIN tasks : last.actor._id \notin tasks[t].assignedTo

\* C12: when the image removal or the removal of the user record fails, the
\* answer is 500 'Server error' naming the failure, the user record is still
\* stored, and the tasks are those the cascade leaves: the tasks created by
\* an admin are gone, a non-admin is in no assignedTo, nothing else changed.
C12_PartialFailure ==
    [][(/\ last'.op = "deleteUserProfile"
        /\ last'.error \in {"delete_resources", "findByIdAndDelete"})
       => LET id == last'.actor._id
          IN  /\ last'.code = 500
              /\ last'.message = "Server error"
              /\ users' = users
              /\ id \in DOMAIN users'
              /\ IF users[id].role = "admin"
                 THEN /\ DOMAIN tasks' =
                            {t \in DOMAIN tasks : tasks[t].createdBy # id}
                      /\ \A t \in DOMAIN tasks' : tasks'[t] = tasks[t]
                 ELSE /\ DOMAIN tasks' = DOMAIN tasks
                      /\ \A t \in DOMAIN tasks :
                            tasks'[t] = [tasks[t] EXCEPT
                                            !.assignedTo = tasks[t].assignedTo \ {id}]]_vars

\* An admin's deletion failed at the image removal after the tasks they
\* created were deleted; the admin is still stored.
C12_Witness ==
    /\ last.op = "deleteUserProfile"
    /\ last.code = 500
    /\ last.error = "delete_resources"
    /\ last.role = "admin"
    /\ last.found # {}
    /\ last.found \cap DOMAIN tasks = {}
    /\ last.actor._id \in DOMAIN users

TaskLookups ==
    {"getTaskById", "updateTask", "updateTaskStatus", "updateTaskCheckList",
     "deleteTask"}

\* C15 as claimed: on every task lookup path an authenticated request with a
\* malformed task id gets 404 'Task not found', and no task is changed.
C15_MalformedIdNotFound ==
    [][(last'.op \in TaskLookups /\ last'.id = InvalidId)
       => (/\ last'.code = 404
           /\ last'.message = "Task not found"
           /\ tasks' = tasks)]_vars

\* C15 amended: the same for every request that reaches the handler, that is,
\* on the delete path for an admin; a non-admin's delete is turned away by
\* adminOnly with 403 before the id is looked at.  Either way no task changes.
C15_MalformedIdReachingHandler ==
    [][(last'.op \in TaskLookups /\ last'.id = InvalidId)
       => (/\ tasks' = tasks
           /\ IF last'.op = "deleteTask" /\ last'.actor.role # "admin"
              THEN last'.code = 403
              ELSE last'.code = 404 /\ last'.message = "Task not found")]_vars

\* The plain user's status update of a malformed id was answered 404 while a
\* task is stored.
C15_Witness ==
    /\ last.op = "updateTaskStatus"
    /\ last.id = InvalidId
    /\ last.actor.role = "user"
    /\ last.code = 404
    /\ DOMAIN tasks # {}

\* C16: an admin's user lookup with a malformed id ends like one with a
\* well-formed id that matches no user: 404 'User not found'.
C16_MalformedUserId ==
    (/\ last.op = "getUserById"
     /\ last.actor.role = "admin"
     /\ last.id = InvalidId)
    => (last.code = 404 /\ last.message = "User not found")

\* C17: a successful status update that leaves the task Pending or In Progress
\* changes nothing but the status, and one whose request carries no status
\* leaves the status as it was.
C17_StatusOnly ==
    [][(last'.op = "updateTaskStatus" /\ last'.code = 200)
       => LET before == tasks[last'.id]
              after == tasks'[last'.id]
          IN  /\ after.status \in {"Pending", "In Progress"}
                    => after = [before EXCEPT !.status = after.status]
              /\ "status" \notin last'.body.has
                    => after.status = before.status]_vars

\* A task with a completed item and progress above 0 was set back to Pending:
\* the item and the progress are as they were.
C17_Witness ==
    /\ last.op = "updateTaskStatus"
    /\ last.code = 200
    /\ "status" \in last.body.has
    /\ last.body.status = "Pending"
    /\ tasks[last.id].status = "Pending"
    /\ tasks[last.id].progress > 0
    /\ \E i \in DOMAIN tasks[last.id].todoCheckList :
            tasks[last.id].todoCheckList[i].completed

\* C18: every stored task's progress is an integer from 0 to 100.
C18_ProgressRange ==
    \A t \in DOMAIN tasks : tasks[t].progress \in 0..100

\* Two checklist updates, or a checklist update and a status update, read the
\* task before either was answered; each is one its handler lets through: sent
\* by an admin or an assignee and carrying its checklist or status.
RanConcurrently ==
    /\ \A p \in Procs :
            /\ calls[p].pc = "done"
            /\ calls[p].readAt = 0
            /\ calls[p].code # 404
            /\ mayUpdate(calls[p].doc, calls[p].actor)
            /\ calls[p].body.has # {}
    /\ \E p \in Procs : calls[p].op = "updateTaskCheckList"

\* C13: when two updates of the same task run concurrently, both are answered
\* 200, and the stored checklist, progress and status are those computed by the
\* request whose write came last.
C13_LastWriteWins ==
    RanConcurrently =>
        /\ \A p \in Procs : calls[p].code = 200
        /\ \A p \in Procs :
                calls[p].seq = 2 =>
                    /\ tasks[calls[p].id].todoCheckList = calls[p].mem.todoCheckList
                    /\ tasks[calls[p].id].progress = calls[p].mem.progress
                    /\ tasks[calls[p].id].status = calls[p].mem.status

\* C14: in every dashboard response, global or scoped, taskDistribution.All
\* equals totalTasks and the Pending, InProgress and Completed buckets add up
\* to totalTasks, whatever requests ran between the dashboard's queries.
C14_DashboardTotals ==
    \A p \in DOMAIN calls :
        (calls[p].op \in Dashboards /\ calls[p].pc = "done")
        => LET d == calls[p].taskDistribution
           IN  /\ d.All = calls[p].totalTasks
               /\ d.Pending + d.InProgress + d.Completed = calls[p].totalTasks

\* C19: no two stored users have the same email, and a signup or an email
\* change that names an email another user holds is answered
\* 400 'User already exists' and stores nothing, also when two such requests
\* both pass the existence check before either writes.
C19_UniqueEmail ==
    /\ \A u, v \in DOMAIN users : u # v => users[u].email # users[v].email
    /\ \A p \in DOMAIN calls :
            (calls[p].op \in {"signUpUser", "updateUserProfile"}
                /\ calls[p].pc = "done" /\ calls[p].held)
            => (/\ calls[p].code = 400
                /\ calls[p].message = "User already exists"
                /\ ~calls[p].stored)

\* C20: on every protected route a request whose credential fails the check
\* is answered by protect and leaves the store unchanged: 401 'Not authorized,
\* token missing or token is invalid' without a header or without the Bearer
\* prefix, 401 'Token expired. Please log in again.' for an expired token,
\* 403 'Invalid token. Please log in again.' for a wrong signature or format,
\* 401 'Not authorized' for any other verification error; and a handler runs
\* only for a request protect let through.
C20_ProtectFailures ==
    [][/\ calls'["req"] # calls["req"] =>
            LET req == calls'["req"]
                kind == req.authorization.kind
                answered(code, message) ==
                    /\ req.pc = "answered"
                    /\ last'.op = req.route
                    /\ last'.code = code
                    /\ last'.message = message
                    /\ users' = users
                    /\ tasks' = tasks
            IN  /\ kind \in {"none", "notBearer"} =>
                    answered(401, "Not authorized, token missing or token is invalid")
                /\ kind = "expired" =>
                    answered(401, "Token expired. Please log in again.")
                /\ kind = "invalid" =>
                    answered(403, "Invalid token. Please log in again.")
                /\ kind = "notBefore" => answered(401, "Not authorized")
       /\ (calls'["req"] = calls["req"] /\ <<users, tasks, last>>' # <<users, tasks, last>>)
            => (/\ calls["req"].authorization.kind = "valid"
                /\ last'.op = calls["req"].route
                /\ last'.actor = calls["req"].authorization.payload)]_vars

\* An expired token was turned away on the delete route while the task it
\* names is stored.
C20_Witness ==
    /\ calls["req"].pc = "answered"
    /\ calls["req"].route = "deleteTask"
    /\ calls["req"].authorization.kind = "expired"
    /\ calls["req"].authorization.payload.role = "admin"
    /\ last.op = "deleteTask"
    /\ last.code = 401
    /\ last.message = "Token expired. Please log in again."
    /\ "t1" \in DOMAIN tasks

\* C21: on every protected route a request with a good credential whose actor
\* id matches no stored user is answered as an unknown actor, 404 'User not
\* found', and its handler returns no document and changes neither collection.
C21_UnknownActor ==
    [][(/\ calls'["req"] = calls["req"]
        /\ last' # last
        /\ last'.actor._id \notin DOMAIN users)
       => (/\ last'.code = 404
           /\ last'.message = "User not found"
           /\ last'.found = {}
           /\ tasks' = tasks
           /\ users' = users)]_vars

\* The handler that answers last' called the failing operation of the store:
\* it is one of the handler's operations, and for the user listing's
\* countDocuments there is a user to count for.
CalledFailing(op, failing) ==
    /\ failing \in StoreOps(op)
    /\ (op = "getUsers" /\ failing = "countDocuments")
            => \E u \in DOMAIN users : users[u].role = "user"

\* C22: a handler that runs while one of its store operations throws never
\* answers with a success; it answers 500 'Server error' with the error's
\* message, unless it answered 400, 403 or 404 before it came to the failing
\* operation, and then it changed nothing.
C22_StorageFailure ==
    [][(/\ calls' = calls
        /\ last' # last
        /\ CalledFailing(last'.op, calls["store"].failing))
       => (/\ last'.code \notin {200, 201}
           /\ last'.code = 500
                => (/\ last'.message = "Server error"
                    /\ last'.error # "")
           /\ last'.code # 500
                => (/\ last'.code \in {400, 403, 404}
                    /\ last'.error = ""
                    /\ tasks' = tasks
                    /\ users' = users))]_vars

\* The checklist update stored the new list and then failed to read the task
\* back: it answered 500 with the error.
C22_Witness ==
    /\ calls["store"].failing = "updatedTask"
    /\ last.op = "updateTaskCheckList"
    /\ last.code = 500
    /\ last.message = "Server error"
    /\ last.error = "updatedTask"
    /\ tasks[last.id].todoCheckList = last.body.todoCheckList

\* The failure category of a credential protect turns away.
CredentialCategory(kind) ==
    CASE kind \in {"none", "notBearer"} -> "AuthenticationFailure"
      [] kind = "expired" -> "CredentialExpired"
      [] kind = "invalid" -> "CredentialInvalid"
      [] OTHER -> "other"

\* The status protect answers a credential of this kind with.
CredentialStatus(kind) == protect([kind |-> kind, payload |-> NoActor]).code

\* C23: the status of a failure tells its category.  Every failure answered
\* on a protected route has a status other than the one protect gives each
\* credential failure of another category: a missing or malformed credential
\* (AuthenticationFailure), an expired one (CredentialExpired), one of a wrong
\* signature or format (CredentialInvalid); the failures a handler answers
\* (AuthorizationDenied, NotFound, ValidationFailure) are of none of these.
C23_DistinctStatus ==
    [][\A kind \in {"none", "expired", "invalid"} :
        LET req == calls'["req"]
            byProtect == req # calls["req"] /\ req.pc = "answered"
            byHandler == req = calls["req"] /\ last' # last /\ last'.code >= 400
            category == IF byProtect
                        THEN CredentialCategory(req.authorization.kind)
                        ELSE "handler"
        IN  ((byProtect \/ byHandler)
                /\ category # "other"
                /\ category # CredentialCategory(kind))
            => last'.code # CredentialStatus(kind)]_vars

\* The signups that stored a user.
SignedUp ==
    {p \in DOMAIN calls : /\ calls[p].op = "signUpUser"
                          /\ calls[p].pc = "done"
                          /\ calls[p].code = 201}

\* C24: the user a signup stores has role admin if and only if the request
\* carried the configured admin invite token; without a token, with an empty
\* one or with a different one the stored role is user.
C24_SignupRole ==
    \A p \in SignedUp :
        /\ NewId(p) \in DOMAIN users
        /\ users[NewId(p)].role = "admin"
                <=> calls[p].adminInviteToken = ADMIN_INVITE_TOKEN
        /\ calls[p].adminInviteToken \in {"", "wrong"}
                => users[NewId(p)].role = "user"

\* A signup that carried a token other than the configured one was stored as
\* a plain user.
C24_Witness ==
    \E p \in SignedUp :
        /\ calls[p].adminInviteToken = "wrong"
        /\ calls[p].email = "new@example.com"
        /\ users[NewId(p)] = [role |-> "user", email |-> "new@example.com"]

\* C25: after every successful checklist update, whatever the length of the
\* checklist, the stored status is Completed exactly when the stored checklist
\* is not empty and all its items are completed, and Pending exactly when none
\* of its items is completed.
C25_StatusFromItems ==
    ChecklistUpdated =>
        LET task == tasks[last.id]
        IN  /\ task.status = "Completed"
                <=> (Len(task.todoCheckList) > 0 /\ AllCompleted(task.todoCheckList))
            /\ task.status = "Pending" <=> NumCompleted(task.todoCheckList) = 0

AdminOnlyRoutes == {"createNewTask", "deleteTask", "getUsers", "getUserById"}

\* C26: a signed-in actor whose stored role is admin passes the admin-only
\* checks with the token the sign-in gave them and is listed every task; an
\* actor whose stored role is user is turned away by the admin-only checks.
C26_StoredRoleDecides ==
    [][(/\ calls' = calls
        /\ last' # last
        /\ last'.actor._id \in DOMAIN users)
       => LET role == users[last'.actor._id].role
          IN  /\ (last'.op \in AdminOnlyRoutes /\ role = "admin")
                    => last'.code # 403
              /\ (last'.op \in AdminOnlyRoutes /\ role = "user")
                    => last'.code = 403
              /\ (last'.op = "getAllTasks" /\ role = "admin")
                    => last'.found = DOMAIN tasks]_vars

\* C27: the global dashboard, whose counts and distribution run over every
\* task, is answered to admin actors only; a dashboard answered to a non-admin
\* is the scoped one.
C27_GlobalDashboardAdminOnly ==
    \A p \in DOMAIN calls :
        (/\ calls[p].op \in Dashboards
         /\ calls[p].pc = "done"
         /\ calls[p].actor.role # "admin")
        => calls[p].op = "getUserDashboardData"

\* C28: when the request right after a successful status update to Completed
\* is a checklist update that sends the task's stored checklist back as it is,
\* the task stays at progress 100 and status Completed, for every checklist
\* the task holds, the empty one included.
C28_CompletedFixedPoint ==
    [][(/\ last.op = "updateTaskStatus"
        /\ last.code = 200
        /\ "status" \in last.body.has
        /\ last.body.status = "Completed"
        /\ last'.op = "updateTaskCheckList"
        /\ last'.code = 200
        /\ last'.id = last.id
        /\ last'.body.todoCheckList = tasks[last.id].todoCheckList)
       => (/\ tasks'[last.id].todoCheckList = tasks[last.id].todoCheckList
           /\ tasks'[last.id].progress = 100
           /\ tasks'[last.id].status = "Completed")]_vars

\* The fields of a task neither update is to touch.
Frame(task) ==
    [title |-> task.title, assignedTo |-> task.assignedTo,
     createdBy |-> task.createdBy]

\* C29: a status update and a checklist update leave the title (and with it
\* the other fields a task only carries), assignedTo and createdBy of the task
\* as they were, whatever other fields the body carries, and change no other
\* task; a status update keeps the length of the checklist and un-completes no
\* item, and an update that is not answered 200 changes nothing.
C29_UpdateFrame ==
    [][(last'.op \in {"updateTaskStatus", "updateTaskCheckList"} /\ last' # last)
       => IF last'.code # 200 THEN tasks' = tasks
          ELSE LET before == tasks[last'.id]
                   after == tasks'[last'.id]
               IN  /\ DOMAIN tasks' = DOMAIN tasks
                   /\ \A t \in DOMAIN tasks \ {last'.id} : tasks'[t] = tasks[t]
                   /\ Frame(after) = Frame(before)
                   /\ last'.op = "updateTaskStatus"
                        => (/\ Len(after.todoCheckList) = Len(before.todoCheckList)
                            /\ \A i \in DOMAIN before.todoCheckList :
                                    before.todoCheckList[i].completed
                                        => after.todoCheckList[i].completed)]_vars

\* A status update whose body also named a title and an assignee was carried
\* out, and the task has neither.
C29_Witness ==
    /\ last.op = "updateTaskStatus"
    /\ last.code = 200
    /\ {"status", "title", "assignedTo", "progress"} \subseteq last.body.has
    /\ tasks[last.id].status = last.body.status
    /\ tasks[last.id].title # last.body.title
    /\ tasks[last.id].assignedTo # last.body.assignedTo
    /\ tasks[last.id].progress # last.body.progress

\* C30: a checklist update of a stored task by an admin or an assignee whose
\* body carries no checklist list is answered with a failure, and the task's
\* checklist, progress and status stay as they were.
C30_NoChecklist ==
    [][(/\ last'.op = "updateTaskCheckList"
        /\ last' # last
        /\ last'.id \in DOMAIN tasks
        /\ mayUpdate(tasks[last'.id], last'.actor)
        /\ "todoCheckList" \notin last'.body.has)
       => (/\ last'.code >= 400
           /\ last'.id \in DOMAIN tasks'
           /\ tasks'[last'.id].todoCheckList = tasks[last'.id].todoCheckList
           /\ tasks'[last'.id].progress = tasks[last'.id].progress
           /\ tasks'[last'.id].status = tasks[last'.id].status)]_vars

\* The assigned user's checklist update without a list was answered 500; the
\* task still has its checklist with a completed item.
C30_Witness ==
    /\ last.op = "updateTaskCheckList"
    /\ "todoCheckList" \notin last.body.has
    /\ last.code = 500
    /\ last.error = "TypeError"
    /\ last.actor.role = "user"
    /\ last.id \in DOMAIN tasks
    /\ last.actor._id \in tasks[last.id].assignedTo
    /\ NumCompleted(tasks[last.id].todoCheckList) > 0
    /\ tasks[last.id].progress > 0

====
